---- MODULE Spec2Model ----
(***************************************************************************)
(* treeclip: exclusion matching, directory traversal and aggregation.      *)
(*                                                                         *)
(* The model follows commands/run/run.rs (execute), core/traversal/        *)
(* walker.rs (Walker), core/traversal/filter.rs (is_hidden) and            *)
(* core/exclude/mod.rs (ExcludeMatcher).  The two libraries the code       *)
(* drives, walkdir (WalkDir, filter_entry) and ignore (GitignoreBuilder,   *)
(* Gitignore::matched), are modelled at the call sites that use them.      *)
(*                                                                         *)
(* A path is a sequence of components, as std::path::Path compares them:   *)
(* an absolute path starts with the component "/", a path written ./x      *)
(* starts with the component ".".  A file's text and the output stream are *)
(* sequences of tokens; " " and "\n" are the whitespace tokens.            *)
(***************************************************************************)
EXTENDS Naturals, Integers, Sequences, FiniteSets, TLC

\* ------------------------------------------------------------------ bounds

\* Longest file content drawn for an input file.
MaxLen == 3

\* Largest number of CLI patterns drawn.
MaxCli == 2

\* The largest count and the largest interval progress_counter is called with.
MaxCurrent == 15
MaxInterval == 5

\* ------------------------------------------------------------------- paths

NoPath == <<"<none>">>

Dot == <<".">>

\* The process's working directory (env::current_dir()).
Cwd == <<"/", "p">>

IsAbs(p) == Len(p) > 0 /\ p[1] = "/"

Last(s) == s[Len(s)]

Front(s) == SubSeq(s, 1, Len(s) - 1)

IsPrefix(a, b) == Len(a) <= Len(b) /\ SubSeq(b, 1, Len(a)) = a

\* Path::join for a single name.
Join(p, name) == p \o <<name>>

\* The file a path denotes: relative paths are taken from the working
\* directory, a leading ./ is dropped.
Resolve(p) ==
    IF IsAbs(p) THEN p
    ELSE IF Len(p) > 0 /\ p[1] = "." THEN Cwd \o Tail(p)
    ELSE Cwd \o p

\* Path::strip_prefix: component-wise; NoPath stands for Err.
StripPrefix(p, base) ==
    IF IsPrefix(base, p) THEN SubSeq(p, Len(base) + 1, Len(p)) ELSE NoPath

\* Path::display: the components joined by the separator.
RECURSIVE DisplayRel(_)
DisplayRel(p) ==
    IF p = <<>> THEN <<>>
    ELSE IF Len(p) = 1 THEN <<p[1]>>
    ELSE <<p[1], "/">> \o DisplayRel(Tail(p))

Display(p) == IF IsAbs(p) THEN <<"/">> \o DisplayRel(Tail(p)) ELSE DisplayRel(p)

\* -------------------------------------------------------------- filesystem

Absent == [kind |-> "absent", content |-> <<>>, utf8 |-> TRUE, perm |-> TRUE]

Dir(perm) == [kind |-> "dir", content |-> <<>>, utf8 |-> TRUE, perm |-> perm]

File(content, utf8) == [kind |-> "file", content |-> content, utf8 |-> utf8, perm |-> TRUE]

\* A symbolic link whose target does not exist.
Broken == [kind |-> "broken", content |-> <<>>, utf8 |-> TRUE, perm |-> TRUE]

\* Every place of the filesystem the model looks at.
Nodes ==
    { <<"/">>,
      <<"/", "p">>,
      <<"/", "p", "a.txt">>,
      <<"/", "p", ".treeclipignore">>,
      <<"/", "p", "treeclip_temp.txt">>,
      <<"/", "p", "sub">>,
      <<"/", "p", "sub", "b.txt">>,
      <<"/", "p", "sub", "d">>,
      <<"/", "p", "sub", "d", "c.txt">>,
      <<"/", "p", "sub", "link">>,
      <<"/", "p", ".git">>,
      <<"/", "p", ".git", "h.txt">>,
      <<"/", "p", "d">>,
      <<"/", "o">>,
      <<"/", "o", "out.txt">> }

KindOf(f, p) == IF Resolve(p) \in DOMAIN f THEN f[Resolve(p)].kind ELSE "absent"

\* Path::exists, Path::is_dir, Path::is_file.
Exists(f, p) == KindOf(f, p) \notin {"absent", "broken"}

\* fs::symlink_metadata succeeds: there is an entry of that name, be it a
\* link whose target is missing.
LExists(f, p) == KindOf(f, p) # "absent"

IsDir(f, p) == KindOf(f, p) = "dir"

IsFile(f, p) == KindOf(f, p) = "file"

\* The names fs::read_dir lists for a directory.
ChildNames(f, p) ==
    { Last(n) : n \in { m \in DOMAIN f : /\ Len(m) = Len(Resolve(p)) + 1
                                         /\ IsPrefix(Resolve(p), m)
                                         /\ f[m].kind # "absent" } }

\* ------------------------------------------------------------------- text

WhiteSpace == {" ", "\n"}

\* trim_end that takes off line ends only.
RECURSIVE trim_end_lines(_)
trim_end_lines(s) ==
    IF s = <<>> THEN s
    ELSE IF Last(s) = "\n" THEN trim_end_lines(Front(s))
    ELSE s

\* str::trim_end.
RECURSIVE trim_end(_)
trim_end(s) ==
    IF s = <<>> THEN s
    ELSE IF Last(s) \in WhiteSpace THEN trim_end(Front(s))
    ELSE s

\* ---------------------------------------------------------- exclusion rules
\* A pattern line is a sequence of tokens: "#", "!", "/", "[" and names.

Skip == [kind |-> "skip"]

Malformed == [kind |-> "error"]

\* The lines of a file's text (BufRead::lines).
RECURSIVE Lines(_, _)
Lines(text, cur) ==
    IF text = <<>> THEN (IF cur = <<>> THEN <<>> ELSE <<cur>>)
    ELSE IF Head(text) = "\n" THEN <<cur>> \o Lines(Tail(text), <<>>)
    ELSE Lines(Tail(text), Append(cur, Head(text)))

\* GitignoreBuilder::add_line: comments and blank lines add nothing, a
\* leading ! negates, a leading / or an inner / anchors the glob to the
\* whole path, a trailing / restricts it to directories, and an unclosed
\* character class does not compile.
add_line(line) ==
    LET l0 == trim_end(line) IN
    IF l0 = <<>> \/ l0[1] = "#" THEN Skip
    ELSE
      LET neg == l0[1] = "!"
          l1 == IF neg THEN Tail(l0) ELSE l0
          abs == l1 # <<>> /\ l1[1] = "/"
          l2 == IF abs THEN Tail(l1) ELSE l1
          od == l2 # <<>> /\ Last(l2) = "/"
          l3 == IF od THEN Front(l2) ELSE l2
          slash == \E i \in 1..Len(l3) : l3[i] = "/"
      IN IF \E i \in 1..Len(l3) : l3[i] = "["
         THEN Malformed
         ELSE [kind |-> "glob",
               is_whitelist |-> neg,
               is_only_dir |-> od,
               anchored |-> abs \/ slash,
               comps |-> SelectSeq(l3, LAMBDA t : t # "/")]

\* The globs a sequence of lines compiles to, in order.
RECURSIVE Globs(_)
Globs(lines) ==
    IF lines = <<>> THEN <<>>
    ELSE LET g == add_line(Head(lines)) IN
         (IF g.kind = "glob" THEN <<g>> ELSE <<>>) \o Globs(Tail(lines))

\* An ignore file that is never read.
add_ignore_file_none(f, root) == <<>>

\* ExcludeMatcher::add_ignore_file: the lines of <root>/.treeclipignore when
\* it exists; what GitignoreBuilder::add reports for a line is dropped.
add_ignore_file(f, root) ==
    LET ignore_file == Join(root, ".treeclipignore") IN
    IF Exists(f, ignore_file) /\ IsFile(f, ignore_file) /\ f[Resolve(ignore_file)].utf8
    THEN Globs(Lines(f[Resolve(ignore_file)].content, <<>>))
    ELSE <<>>

\* ExcludeMatcher::add_cli_patterns: the first line that does not compile
\* is returned as the error.
add_cli_patterns(cli_patterns) ==
    IF \E i \in 1..Len(cli_patterns) : add_line(cli_patterns[i]).kind = "error"
    THEN Malformed
    ELSE [kind |-> "ok", globs |-> Globs(cli_patterns)]

\* ExcludeMatcher::new with the CLI patterns added before the ignore file.
ExcludeMatcherNew_cliFirst(f, root, cli_patterns) ==
    LET fromFile == add_ignore_file(f, root)
        fromCli == add_cli_patterns(cli_patterns)
    IN IF fromCli.kind = "error" THEN Malformed
       ELSE [kind |-> "ok",
             root |-> (IF Len(root) > 1 /\ root[1] = "." THEN Tail(root) ELSE root),
             globs |-> fromCli.globs \o fromFile]

\* ExcludeMatcher::new.
ExcludeMatcherNew(f, root, cli_patterns) ==
    LET fromFile == add_ignore_file(f, root)
        fromCli == add_cli_patterns(cli_patterns)
    IN IF fromCli.kind = "error" THEN Malformed
       ELSE [kind |-> "ok",
             root |-> (IF Len(root) > 1 /\ root[1] = "." THEN Tail(root) ELSE root),
             globs |-> fromFile \o fromCli.globs]

\* Gitignore::strip: a leading ./ goes, then the matcher's root when the
\* candidate starts with it and is more than a bare file name.
Strip(m, path) ==
    LET p1 == IF Len(path) > 1 /\ path[1] = "." THEN Tail(path) ELSE path
        is_file_name == Len(p1) = 1 /\ ~IsAbs(p1)
    IN IF m.root # Dot /\ ~is_file_name /\ IsPrefix(m.root, p1)
       THEN SubSeq(p1, Len(m.root) + 1, Len(p1))
       ELSE p1

\* Whether one compiled glob matches a stripped candidate.
GlobMatches(g, cand) ==
    IF g.anchored THEN g.comps # <<>> /\ cand = g.comps
    ELSE /\ Len(g.comps) = 1
         /\ cand # <<>>
         /\ Last(cand) = g.comps[1]

\* A matcher for which a path that no glob matches is ignored.
RECURSIVE matched_noneIgnores(_, _, _, _)
matched_noneIgnores(globs, i, cand, is_dir) ==
    IF i = 0 THEN "ignore"
    ELSE IF GlobMatches(globs[i], cand) /\ (~globs[i].is_only_dir \/ is_dir)
         THEN (IF globs[i].is_whitelist THEN "whitelist" ELSE "ignore")
         ELSE matched_noneIgnores(globs, i - 1, cand, is_dir)

\* Gitignore::matched: the globs are tried from the last to the first, a
\* directory-only glob is passed over for a non-directory, and the first
\* glob left decides.
RECURSIVE matched(_, _, _, _)
matched(globs, i, cand, is_dir) ==
    IF i = 0 THEN "none"
    ELSE IF GlobMatches(globs[i], cand) /\ (~globs[i].is_only_dir \/ is_dir)
         THEN (IF globs[i].is_whitelist THEN "whitelist" ELSE "ignore")
         ELSE matched(globs, i - 1, cand, is_dir)

\* A matcher that is told every path is a directory.
is_excluded_asDir(f, m, path) ==
    matched(m.globs, Len(m.globs), Strip(m, path), TRUE) = "ignore"

\* ExcludeMatcher::is_excluded.
is_excluded(f, m, path) ==
    matched(m.globs, Len(m.globs), Strip(m, path), IsDir(f, path)) = "ignore"

\* filter::is_hidden: the entry's file name starts with a dot.
DotNames == {".treeclipignore", ".env", ".git", "."}

\* A test of the whole path in place of the file name.
is_hidden_path(path) == path[1] \in DotNames

is_hidden(path) == Last(path) \in DotNames

\* ------------------------------------------------------------------- state

VARIABLES
    pc,          \* where the run stands: start, process_dir, traverse, open,
                 \* walk, done (process_dir returned Ok), failed (process_dir
                 \* returned an error), then the stages of execute:
                 \* clipboard, stats, editor, delete, returned, failed_*
    args,        \* RunArgs as given on the command line
    walker,      \* the Walker built by execute: root, input, output, patterns
    fs,          \* the filesystem: node -> kind, content, decodable, listable
    matcher,     \* the ExcludeMatcher of the run
    started,     \* whether WalkDir has produced its depth-0 entry
    stack,       \* WalkDir's open directories, innermost last
    file_count,  \* traverse's file_count
    first,       \* traverse's first flag
    records,     \* the records completed so far, in order
    seen,        \* the entries WalkDir has handed to the filter_entry closure
    errs,        \* the paths whose access error the iterator has produced
    result,      \* what the run returned: none, ok, or the error
    fs0,         \* the filesystem as it was before the current run
    listing,     \* per directory, the names in the order read_dir gave them
    run,         \* 1 in the first run over the tree, 2 in the second
    out1,        \* what the destination held when the first run returned
    env,         \* what the run finds around it: whether a clipboard handle
                 \* can be made, whether an editor runs, who calls process_dir
    clipboard,   \* the system clipboard: whether the run set it, and the text
    opened,      \* whether editor::open has returned Ok
    progress     \* a call of progress_counter: its arguments and what it gave

vars == <<pc, args, walker, fs, matcher, started, stack, file_count, first,
          records, seen, errs, result, fs0, listing, run, out1,
          env, clipboard, opened, progress>>

NoWalker == [root |-> NoPath, input |-> NoPath, output |-> NoPath, exclude_patterns |-> <<>>]

NoMatcher == [kind |-> "none", root |-> NoPath, globs |-> <<>>]

\* The content of the destination as it stands on disk.
Out == IF Resolve(walker.output) \in DOMAIN fs THEN fs[Resolve(walker.output)].content ELSE <<>>

\* ------------------------------------------------------------- operations

\* execute, up to Walker::new: "." and a missing value are replaced.
ExecuteInput(a) == IF a.input_path = Dot THEN Cwd ELSE a.input_path

ExecuteOutput(a) ==
    IF a.output_path = NoPath \/ a.output_path = Dot
    THEN <<".", "treeclip_temp.txt">>
    ELSE a.output_path

ExecuteRoot(a) == IF a.root = NoPath \/ a.root = Dot THEN Cwd ELSE a.root

Execute ==
    /\ pc = "start"
    /\ walker' = [root |-> ExecuteRoot(args),
                  input |-> ExecuteInput(args),
                  output |-> ExecuteOutput(args),
                  exclude_patterns |-> args.exclude]
    /\ pc' = "process_dir"
    /\ UNCHANGED <<args, fs, matcher, started, stack, file_count, first,
                   records, seen, errs, result, fs0, listing, run, out1,
                   env, clipboard, opened, progress>>

\* Walker::process_dir up to the call of traverse: validate_path_exists.
ProcessDir ==
    /\ pc = "process_dir"
    /\ IF Exists(fs, args.input_path)
       THEN pc' = "traverse" /\ result' = result
       ELSE pc' = "failed" /\ result' = "err_input"
    /\ UNCHANGED <<args, walker, fs, matcher, started, stack, file_count,
                   first, records, seen, errs, fs0, listing, run, out1,
                   env, clipboard, opened, progress>>

\* File::options().write(true).truncate(true).create(true).open: the parent
\* must be a directory and the path must not be one.
CanOpen(f, path) ==
    /\ Resolve(path) \in DOMAIN f
    /\ Len(Resolve(path)) > 1
    /\ f[Front(Resolve(path))].kind = "dir"
    /\ f[Resolve(path)].kind # "dir"

\* A traverse that opens the destination first and builds the matcher
\* after.
TraverseMatcher_afterOpen ==
    /\ pc = "traverse"
    /\ LET m == ExcludeMatcherNew(fs, walker.root, walker.exclude_patterns) IN
       IF m.kind = "error"
       THEN pc' = "failed" /\ result' = "err_pattern" /\ matcher' = matcher
       ELSE pc' = "open" /\ result' = result /\ matcher' = m
    /\ fs' = IF CanOpen(fs, walker.output)
             THEN [fs EXCEPT ![Resolve(walker.output)] = File(<<>>, TRUE)]
             ELSE fs
    /\ UNCHANGED <<args, walker, started, stack, file_count, first,
                   records, seen, errs, fs0, listing, run, out1,
                   env, clipboard, opened, progress>>

\* Walker::traverse, the matcher.
TraverseMatcher ==
    /\ pc = "traverse"
    /\ LET m == ExcludeMatcherNew(fs, walker.root, walker.exclude_patterns) IN
       IF m.kind = "error"
       THEN pc' = "failed" /\ result' = "err_pattern" /\ matcher' = matcher
       ELSE pc' = "open" /\ result' = result /\ matcher' = m
    /\ UNCHANGED <<args, walker, fs, started, stack, file_count, first,
                   records, seen, errs, fs0, listing, run, out1,
                   env, clipboard, opened, progress>>

\* An open without truncate(true): what the destination holds stays, and
\* the records are written after it.
TraverseOpen_noTruncate ==
    /\ pc = "open"
    /\ IF CanOpen(fs, walker.output)
       THEN /\ fs' = [fs EXCEPT ![Resolve(walker.output)] =
                        IF @.kind = "file" THEN @ ELSE File(<<>>, TRUE)]
            /\ pc' = "walk"
            /\ result' = result
       ELSE /\ fs' = fs
            /\ pc' = "failed"
            /\ result' = "err_open"
    /\ UNCHANGED <<args, walker, matcher, started, stack, file_count, first,
                   records, seen, errs, fs0, listing, run, out1,
                   env, clipboard, opened, progress>>

\* Walker::traverse, the destination.
TraverseOpen ==
    /\ pc = "open"
    /\ IF CanOpen(fs, walker.output)
       THEN /\ fs' = [fs EXCEPT ![Resolve(walker.output)] = File(<<>>, TRUE)]
            /\ pc' = "walk"
            /\ result' = result
       ELSE /\ fs' = fs
            /\ pc' = "failed"
            /\ result' = "err_open"
    /\ UNCHANGED <<args, walker, matcher, started, stack, file_count, first,
                   records, seen, errs, fs0, listing, run, out1,
                   env, clipboard, opened, progress>>

\* A walk that lists no directory below the first level (max_depth(1)).
Frame_shallow(f, dent) ==
    [dir |-> dent,
     rest |-> IF f[Resolve(dent)].perm /\ dent = walker.input THEN ChildNames(f, dent) ELSE {},
     err |-> ~f[Resolve(dent)].perm]

\* WalkDir's list for a directory it has just opened: the names read_dir
\* gives, or the error read_dir returned.
Frame(f, dent) ==
    [dir |-> dent,
     rest |-> IF f[Resolve(dent)].perm THEN ChildNames(f, dent) ELSE {},
     err |-> ~f[Resolve(dent)].perm]

\* A walk that never leaves a directory it has opened.
PopDone_never(stk) == stk

\* The lists that are used up are popped.
RECURSIVE PopDone(_)
PopDone(stk) ==
    IF stk = <<>> THEN stk
    ELSE IF Last(stk).rest = {} /\ ~Last(stk).err THEN PopDone(Front(stk))
    ELSE stk

\* A header that falls back to the bare file name.
relative_path_fileName(w, entry_path) ==
    IF StripPrefix(entry_path, w.root) # NoPath
    THEN StripPrefix(entry_path, w.root)
    ELSE <<Last(entry_path)>>

\* The path a record's header shows.
relative_path(w, entry_path) ==
    IF StripPrefix(entry_path, w.root) # NoPath
    THEN StripPrefix(entry_path, w.root)
    ELSE entry_path

HeaderLine(p) == <<"==> ">> \o Display(p) \o <<"\n">>

\* A separator written before every record, the first included.
Separator_always(isFirst) == <<"\n">>

\* Whether the separator line is written before a record.
Separator(isFirst) == IF ~isFirst THEN <<"\n">> ELSE <<>>

\* A file whose text cannot be read is passed over: no content, no error.
write_file_content_skip(f, w, entry_path, isFirst) ==
    [ok |-> TRUE,
     fs |-> [f EXCEPT ![Resolve(w.output)].content =
               @ \o Separator(isFirst) \o HeaderLine(relative_path(w, entry_path)) \o <<"\n">>],
     first |-> FALSE,
     rec |-> <<>>]

\* Walker::write_file_content.  The writes go straight to the file, so the
\* header is on disk when the entry is read.
write_file_content(f, w, entry_path, isFirst) ==
    LET o == Resolve(w.output)
        e == Resolve(entry_path)
        f1 == [f EXCEPT ![o].content =
                  @ \o Separator(isFirst) \o HeaderLine(relative_path(w, entry_path))]
        readable == f1[e].kind = "file" /\ f1[e].utf8 /\ f1[e].perm
        content == f1[e].content
        f2 == [f1 EXCEPT ![o].content = @ \o trim_end(content) \o <<"\n">>]
    IN IF readable
       THEN [ok |-> TRUE, fs |-> f2, first |-> FALSE,
             rec |-> <<[entry |-> entry_path,
                        header |-> relative_path(w, entry_path),
                        content |-> content,
                        from |-> Len(f[o].content) + Len(Separator(isFirst)) + 1,
                        to |-> Len(f2[o].content)]>>]
       ELSE [ok |-> FALSE, fs |-> f1, first |-> isFirst, rec |-> <<>>]

\* A filter that drops the entry and leaves its directory open (filter in
\* place of filter_entry).
filter_entry_noSkip(pass, stk, pushed) == pushed

\* FilterEntry::next: an entry the closure turns away is dropped and, when
\* it is a directory, skip_current_dir closes the list just opened for it.
filter_entry(pass, stk, pushed) == IF pass THEN pushed ELSE stk

\* A loop body that runs for every entry, whatever its kind.
is_file_any(f, entry_path) == TRUE

\* entry_path.is_file() of the loop body.
is_file(f, entry_path) == IsFile(f, entry_path)

\* A loop that passes over the ignore file as it passes over the output.
is_output_orIgnore(w, entry_path) ==
    entry_path = w.output \/ Last(entry_path) = ".treeclipignore"

\* entry_path == self.output of the loop body: the two paths as written.
is_output(w, entry_path) == entry_path = w.output

\* A loop body that removes the file it has copied.
HandleEntry_move(dent, stk) ==
    LET pushed == IF IsDir(fs, dent) THEN Append(stk, Frame(fs, dent)) ELSE stk
        excluded == is_excluded(fs, matcher, dent)
        non_hidden_path == ~args.skip_hidden \/ ~is_hidden(dent)
        pass == ~excluded /\ non_hidden_path
    IN /\ seen' = seen \cup {dent}
       /\ stack' = PopDone(filter_entry(pass, stk, pushed))
       /\ IF pass /\ ~is_output(walker, dent) /\ is_file(fs, dent)
          THEN LET w == write_file_content(fs, walker, dent, first) IN
               /\ file_count' = file_count + 1
               /\ fs' = [w.fs EXCEPT ![Resolve(dent)] = Absent]
               /\ first' = w.first
               /\ records' = records \o w.rec
               /\ pc' = IF w.ok THEN pc ELSE "failed"
               /\ result' = IF w.ok THEN result ELSE "err_read"
          ELSE UNCHANGED <<fs, file_count, first, records, pc, result>>

\* One entry of the walk: WalkDir opens it when it is a directory, the
\* filter_entry closure (lines 59-64) decides, and the loop body (lines
\* 78-98) runs for an entry that is let through.
HandleEntry(dent, stk) ==
    LET pushed == IF IsDir(fs, dent) THEN Append(stk, Frame(fs, dent)) ELSE stk
        excluded == is_excluded(fs, matcher, dent)
        non_hidden_path == ~args.skip_hidden \/ ~is_hidden(dent)
        pass == ~excluded /\ non_hidden_path
    IN /\ seen' = seen \cup {dent}
       /\ stack' = PopDone(filter_entry(pass, stk, pushed))
       /\ IF pass /\ ~is_output(walker, dent) /\ is_file(fs, dent)
          THEN LET w == write_file_content(fs, walker, dent, first) IN
               /\ file_count' = file_count + 1
               /\ fs' = w.fs
               /\ first' = w.first
               /\ records' = records \o w.rec
               /\ pc' = IF w.ok THEN pc ELSE "failed"
               /\ result' = IF w.ok THEN result ELSE "err_read"
          ELSE UNCHANGED <<fs, file_count, first, records, pc, result>>

\* An error item of the walk ends the run with that error (? in place of
\* filter_map).
filter_map_ok_propagate(res) == "err_walk"

\* .filter_map(|e| e.ok()): an error item of the walk is dropped, and the
\* result of the run is what it was.
filter_map_ok(res) == res

\* The place of a name in a list, one past the end when it is not there.
Position(lst, name) ==
    IF \E i \in 1..Len(lst) : lst[i] = name
    THEN CHOOSE i \in 1..Len(lst) : lst[i] = name /\ \A j \in 1..(i - 1) : lst[j] # name
    ELSE Len(lst) + 1

\* Entries that come in any order, as from a walk on several threads.
read_dir_next_any(lst, rest) == rest

\* The names read_dir can give next.  The order of a directory is not
\* specified, but a directory that has not changed is listed again in the
\* order it was listed in before.
read_dir_next(lst, rest) ==
    { n \in rest : \A m \in rest : Position(lst, n) <= Position(lst, m) }

\* One item of WalkDir::new(input).into_iter().filter_entry(..), consumed by
\* the for loop of traverse.
WalkNext ==
    /\ pc = "walk"
    /\ \/ /\ ~started
          /\ started' = TRUE
          /\ listing' = listing
          /\ IF LExists(fs, walker.input)
             THEN HandleEntry(walker.input, <<>>) /\ errs' = errs
             ELSE /\ errs' = errs \cup {walker.input}
                  /\ result' = filter_map_ok(result)
                  /\ pc' = IF filter_map_ok(result) = result THEN pc ELSE "failed"
                  /\ UNCHANGED <<fs, stack, file_count, first, records, seen>>
       \/ /\ started
          /\ stack # <<>>
          /\ started' = started
          /\ LET top == Last(stack) IN
             IF top.err
             THEN /\ errs' = errs \cup {top.dir}
                  /\ stack' = PopDone(Front(stack))
                  /\ result' = filter_map_ok(result)
                  /\ pc' = IF filter_map_ok(result) = result THEN pc ELSE "failed"
                  /\ UNCHANGED <<fs, file_count, first, records, seen, listing>>
             ELSE \E name \in read_dir_next(listing[Resolve(top.dir)], top.rest) :
                  /\ errs' = errs
                  /\ listing' = [listing EXCEPT ![Resolve(top.dir)] =
                                    IF Position(@, name) <= Len(@) THEN @ ELSE Append(@, name)]
                  /\ HandleEntry(Join(top.dir, name),
                                 [stack EXCEPT ![Len(stack)].rest = @ \ {name}])
    /\ UNCHANGED <<args, walker, matcher, fs0, run, out1,
                   env, clipboard, opened, progress>>

\* Walker::traverse, after the loop.
TraverseReturn ==
    /\ pc = "walk"
    /\ started
    /\ stack = <<>>
    /\ pc' = "done"
    /\ result' = "ok"
    /\ UNCHANGED <<args, walker, fs, matcher, started, stack, file_count,
                   first, records, seen, errs, fs0, listing, run, out1,
                   env, clipboard, opened, progress>>

\* The clipboard before the run sets it.
NoClipboard == [set |-> FALSE, text |-> <<>>]

\* execute, Clipboard::new(&output)?: the handle of the system clipboard is
\* made whatever the clipboard flag says.
ClipboardNew_always ==
    /\ pc \in {"done", "failed"}
    /\ env.caller = "execute"
    /\ pc' = IF env.clipboard_ok THEN "clipboard" ELSE "failed_clipboard_new"
    /\ UNCHANGED <<args, walker, fs, matcher, started, stack, file_count,
                   first, records, seen, errs, result, fs0, listing, run, out1,
                   env, clipboard, opened, progress>>

ClipboardNew ==
    /\ pc = "done"
    /\ env.caller = "execute"
    /\ pc' = IF env.clipboard_ok THEN "clipboard" ELSE "failed_clipboard_new"
    /\ UNCHANGED <<args, walker, fs, matcher, started, stack, file_count,
                   first, records, seen, errs, result, fs0, listing, run, out1,
                   env, clipboard, opened, progress>>

\* execute, the clipboard stage: set_clipboard reads the output file and
\* sets the clipboard to its text.
ClipboardCopy ==
    /\ pc = "clipboard"
    /\ IF args.clipboard
       THEN IF IsFile(fs, walker.output)
            THEN clipboard' = [set |-> TRUE, text |-> Out] /\ pc' = "stats"
            ELSE clipboard' = clipboard /\ pc' = "failed_set_clipboard"
       ELSE clipboard' = clipboard /\ pc' = "stats"
    /\ UNCHANGED <<args, walker, fs, matcher, started, stack, file_count,
                   first, records, seen, errs, result, fs0, listing, run, out1,
                   env, opened, progress>>

\* execute, the statistics stage: show_stats reads the output file.
ShowStats ==
    /\ pc = "stats"
    /\ pc' = IF args.stats /\ ~IsFile(fs, walker.output) THEN "failed_stats" ELSE "editor"
    /\ UNCHANGED <<args, walker, fs, matcher, started, stack, file_count,
                   first, records, seen, errs, result, fs0, listing, run, out1,
                   env, clipboard, opened, progress>>

\* execute, the editor stage: editor::open canonicalizes the path and runs
\* the platform's opener, then the CLI editor when the opener fails.
EditorOpen ==
    /\ pc = "editor"
    /\ IF args.editor
       THEN IF Exists(fs, walker.output) /\ env.editor_ok
            THEN opened' = TRUE /\ pc' = "delete"
            ELSE opened' = opened /\ pc' = "failed_editor"
       ELSE opened' = opened /\ pc' = "delete"
    /\ UNCHANGED <<args, walker, fs, matcher, started, stack, file_count,
                   first, records, seen, errs, result, fs0, listing, run, out1,
                   env, clipboard, progress>>

\* execute, the delete stage and the return: editor::delete removes the
\* output file.
EditorDelete_deleteOnly ==
    /\ pc = "delete"
    /\ IF args.delete
       THEN IF LExists(fs, walker.output) /\ ~IsDir(fs, walker.output)
            THEN fs' = [fs EXCEPT ![Resolve(walker.output)] = Absent] /\ pc' = "returned"
            ELSE fs' = fs /\ pc' = "failed_delete"
       ELSE fs' = fs /\ pc' = "returned"
    /\ UNCHANGED <<args, walker, matcher, started, stack, file_count,
                   first, records, seen, errs, result, fs0, listing, run, out1,
                   env, clipboard, opened, progress>>

EditorDelete ==
    /\ pc = "delete"
    /\ IF args.delete /\ args.editor
       THEN IF LExists(fs, walker.output) /\ ~IsDir(fs, walker.output)
            THEN fs' = [fs EXCEPT ![Resolve(walker.output)] = Absent] /\ pc' = "returned"
            ELSE fs' = fs /\ pc' = "failed_delete"
       ELSE fs' = fs /\ pc' = "returned"
    /\ UNCHANGED <<args, walker, matcher, started, stack, file_count,
                   first, records, seen, errs, result, fs0, listing, run, out1,
                   env, clipboard, opened, progress>>

\* The same run once more, over the tree the first run left: Walker::new
\* gets the arguments it got before, and what the walk keeps starts afresh.
RunAgain ==
    /\ pc = "done"
    /\ run = 1
    /\ run' = 2
    /\ out1' = Out
    /\ fs0' = fs
    /\ pc' = "process_dir"
    /\ matcher' = NoMatcher
    /\ started' = FALSE
    /\ stack' = <<>>
    /\ file_count' = 0
    /\ first' = TRUE
    /\ records' = <<>>
    /\ seen' = {}
    /\ errs' = {}
    /\ result' = "none"
    /\ UNCHANGED <<args, walker, fs, listing, env, clipboard, opened, progress>>

Next ==
    \/ Execute
    \/ ProcessDir
    \/ TraverseMatcher
    \/ TraverseOpen
    \/ WalkNext
    \/ TraverseReturn
    \/ RunAgain
    \/ ClipboardNew
    \/ ClipboardCopy
    \/ ShowStats
    \/ EditorOpen
    \/ EditorDelete

\* ----------------------------------------------------------------- inputs

Text == {"x", " ", "\n"}

\* Every text of at most n tokens.
RECURSIVE Texts(_)
Texts(n) ==
    IF n = 0 THEN {<<>>}
    ELSE Texts(n - 1) \cup { Append(t, c) : t \in { u \in Texts(n - 1) : Len(u) = n - 1 }, c \in Text }

\* A directory tree: the ignore file's text (NoPath for none), whether a
\* destination of an earlier run is there, the text of a.txt and b.txt,
\* whether b.txt decodes as text, and whether sub/d can be listed.
Tree(ign, temp, cA, cB, bUtf8, dperm) ==
    [n \in Nodes |->
        CASE n = <<"/">> -> Dir(TRUE)
          [] n = <<"/", "p">> -> Dir(TRUE)
          [] n = <<"/", "p", "a.txt">> -> File(cA, TRUE)
          [] n = <<"/", "p", ".treeclipignore">> ->
                 (IF ign = NoPath THEN Absent ELSE File(ign, TRUE))
          [] n = <<"/", "p", "treeclip_temp.txt">> ->
                 (IF temp THEN File(<<"x", "\n">>, TRUE) ELSE Absent)
          [] n = <<"/", "p", "sub">> -> Dir(TRUE)
          [] n = <<"/", "p", "sub", "b.txt">> -> File(cB, bUtf8)
          [] n = <<"/", "p", "sub", "d">> -> Dir(dperm)
          [] n = <<"/", "p", "sub", "d", "c.txt">> -> File(<<"x">>, TRUE)
          [] n = <<"/", "o">> -> Dir(TRUE)
          [] OTHER -> Absent]

\* No call of progress_counter.
NoProgress == [emoji_set |-> <<>>, current |-> 0, interval |-> 1, message |-> <<>>]

\* A machine with a clipboard and an editor, the run started by execute.
Desktop == [clipboard_ok |-> TRUE, editor_ok |-> TRUE, caller |-> "execute"]

\* What the walk keeps, before a run.
InitWalk ==
    /\ fs0 = fs
    /\ listing = [n \in Nodes |-> <<>>]
    /\ run = 1
    /\ out1 = <<>>
    /\ clipboard = NoClipboard
    /\ opened = FALSE
    /\ progress = NoProgress
    /\ matcher = NoMatcher
    /\ started = FALSE
    /\ stack = <<>>
    /\ file_count = 0
    /\ first = TRUE
    /\ records = <<>>
    /\ seen = {}
    /\ errs = {}
    /\ result = "none"

\* A run of the command: execute builds the walker from the arguments.
InitWith(argSet, treeSet) ==
    /\ pc = "start"
    /\ args \in argSet
    /\ fs \in treeSet
    /\ walker = NoWalker
    /\ env = Desktop
    /\ InitWalk

\* Walker::new called with a walker of its own and process_dir with
\* arguments of their own, as the tests of walker.rs do.
InitDirect(walkerSet, argSet, treeSet) ==
    /\ pc = "process_dir"
    /\ args \in argSet
    /\ fs \in treeSet
    /\ walker \in walkerSet
    /\ env = [Desktop EXCEPT !.caller = "process_dir"]
    /\ InitWalk

\* A run of the command with the stages after process_dir chosen by the
\* flags, on a machine that may lack a clipboard or an editor.
InitStages(argSet, treeSet, envSet) ==
    /\ pc = "start"
    /\ args \in argSet
    /\ fs \in treeSet
    /\ walker = NoWalker
    /\ env \in envSet
    /\ InitWalk

\* Every sequence of at most n elements of S.
RECURSIVE SeqsUpTo(_, _)
SeqsUpTo(S, n) ==
    IF n = 0 THEN {<<>>}
    ELSE SeqsUpTo(S, n - 1)
         \cup { Append(t, c) : t \in { u \in SeqsUpTo(S, n - 1) : Len(u) = n - 1 }, c \in S }

Abs_p == <<"/", "p">>

Abs_sub == <<"/", "p", "sub">>

Abs_d == <<"/", "p", "sub", "d">>

Abs_temp == <<"/", "p", "treeclip_temp.txt">>

Abs_out == <<"/", "o", "out.txt">>

\* The pattern lines drawn for the command line.
CliLines == { <<"sub">>, <<"!", "sub">>, <<"d", "/">>, <<"[">> }

\* The ignore files drawn: none, one rule, a rule and its negation, a
\* rule after a line that does not compile, an anchored rule.
IgnoreTexts ==
    { NoPath,
      <<"sub">>,
      <<"!", "sub", "\n", "a.txt">>,
      <<"[", "\n", "d">>,
      <<"#", "\n", "/", "sub", "/", "d", "\n">> }

\* Runs that vary the rules: absolute paths, the input at or below the root.
RuleArgs ==
    [input_path : {Abs_p, Abs_sub, Abs_d},
     output_path : {Abs_out},
     root : {Abs_p},
     exclude : SeqsUpTo(CliLines, MaxCli),
     skip_hidden : BOOLEAN,
     clipboard : {FALSE},
     stats : {FALSE},
     editor : {FALSE},
     delete : {FALSE}]

RuleTrees ==
    { Tree(ign, FALSE, <<"x">>, <<"x", "\n">>, bUtf8, dperm) :
        ign \in IgnoreTexts, bUtf8 \in BOOLEAN, dperm \in BOOLEAN }

\* Runs that vary how the paths are written.
PathArgs ==
    [input_path : {Dot, Abs_p, <<"sub">>, <<".", "sub">>, Abs_sub, <<"sub", "d">>, <<"/", "nowhere">>},
     output_path : {NoPath, Dot, Abs_temp, <<"treeclip_temp.txt">>, Abs_out, <<"/", "nowhere", "out.txt">>},
     root : {NoPath, Dot, Abs_p, Abs_sub, <<"sub">>},
     exclude : {<<>>, <<<<"d">>>>},
     skip_hidden : {FALSE},
     clipboard : {FALSE},
     stats : {FALSE},
     editor : {FALSE},
     delete : {FALSE}]

PathTrees == { Tree(NoPath, temp, <<"x">>, <<"x", "\n">>, TRUE, TRUE) : temp \in BOOLEAN }

\* Runs that vary the text of the files.
TextArgs ==
    [input_path : {Dot},
     output_path : {NoPath, Abs_out},
     root : {NoPath},
     exclude : {<<>>},
     skip_hidden : {TRUE},
     clipboard : {FALSE},
     stats : {FALSE},
     editor : {FALSE},
     delete : {FALSE}]

TextTrees ==
    { Tree(NoPath, FALSE, cA, cB, TRUE, TRUE) :
        cA \in Texts(MaxLen), cB \in {<<>>, <<" ">>, <<"x", "\n">>} }

Abs_git == <<"/", "p", ".git">>

Abs_nowhere == <<"/", "nowhere">>

\* A tree with a hidden directory that holds a file, and with a link in sub
\* whose target is missing.
HiddenTree(t) ==
    [t EXCEPT ![<<"/", "p", ".git">>] = Dir(TRUE),
              ![<<"/", "p", ".git", "h.txt">>] = File(<<"x">>, TRUE),
              ![<<"/", "p", "sub", "link">>] = Broken]

\* Runs over hidden entries and over entries that cannot be read.
HiddenArgs ==
    [input_path : {Abs_p, Abs_git},
     output_path : {Abs_out},
     root : {Abs_p},
     exclude : {<<>>},
     skip_hidden : BOOLEAN,
     clipboard : {FALSE},
     stats : {FALSE},
     editor : {FALSE},
     delete : {FALSE}]

HiddenTrees ==
    { HiddenTree(Tree(ign, FALSE, <<"x">>, <<"x", "\n">>, bUtf8, dperm)) :
        ign \in {NoPath, <<"d">>}, bUtf8 \in BOOLEAN, dperm \in BOOLEAN }

\* Walkers and arguments made apart from each other: the path that
\* process_dir validates is a field of the arguments, the path that
\* traverse walks is a field of the walker.
DirectWalkers ==
    [root : {Abs_p},
     input : {Abs_p, Abs_nowhere},
     output : {Abs_out, Abs_temp},
     exclude_patterns : {<<>>, <<<<"[">>>>}]

DirectArgs ==
    [input_path : {Abs_p, Abs_nowhere},
     output_path : {NoPath},
     root : {NoPath},
     exclude : {<<>>},
     skip_hidden : BOOLEAN,
     clipboard : {FALSE},
     stats : {FALSE},
     editor : {FALSE},
     delete : {FALSE}]

\* The tree of the scenario: a.txt, sub/b.txt and an ignore file that
\* holds the one line sub.
ScenarioTree ==
    [Tree(<<"sub">>, FALSE, <<"hello">>, <<"world">>, TRUE, TRUE)
        EXCEPT ![<<"/", "p", "sub", "d">>] = Absent,
               ![<<"/", "p", "sub", "d", "c.txt">>] = Absent]

ScenarioArgs ==
    [input_path : {Abs_p},
     output_path : {Abs_out},
     root : {Abs_p},
     exclude : {<<>>},
     skip_hidden : BOOLEAN,
     clipboard : {FALSE},
     stats : {FALSE},
     editor : {FALSE},
     delete : {FALSE}]

\* Runs with directory-only patterns over a tree that has a regular file d
\* next to the directory sub/d.
DirOnlyArgs ==
    [input_path : {Abs_p},
     output_path : {Abs_out},
     root : {Abs_p},
     exclude : { <<<<"d", "/">>>>,
                 <<<<"a.txt", "/">>, <<"sub", "/">>>>,
                 <<<<"d">>, <<"!", "d", "/">>>>,
                 <<<<"!", "d">>>> },
     skip_hidden : {FALSE},
     clipboard : {FALSE},
     stats : {FALSE},
     editor : {FALSE},
     delete : {FALSE}]

DirOnlyTrees ==
    { [Tree(ign, FALSE, <<"x">>, <<"x", "\n">>, TRUE, TRUE)
          EXCEPT ![<<"/", "p", "d">>] = File(<<"x">>, TRUE)] :
        ign \in {NoPath, <<"d", "/", "\n">>} }

\* Runs that vary the stages after process_dir.
StageArgs ==
    [input_path : {Abs_sub, Abs_nowhere},
     output_path : {NoPath, Abs_out},
     root : {Abs_p},
     exclude : {<<>>},
     skip_hidden : {FALSE},
     clipboard : BOOLEAN,
     stats : BOOLEAN,
     editor : BOOLEAN,
     delete : BOOLEAN]

StageTrees == { Tree(NoPath, FALSE, <<"x">>, <<"x", "\n">>, bUtf8, TRUE) : bUtf8 \in BOOLEAN }

StageEnvs == [clipboard_ok : BOOLEAN, editor_ok : BOOLEAN, caller : {"execute"}]

Init ==
    \/ InitStages(StageArgs, StageTrees, StageEnvs)
    \/ InitWith(DirOnlyArgs, DirOnlyTrees)
    \/ InitWith(RuleArgs, RuleTrees)
    \/ InitWith(PathArgs, PathTrees)
    \/ InitWith(TextArgs, TextTrees)
    \/ InitWith(HiddenArgs, HiddenTrees)
    \/ InitWith(ScenarioArgs, {ScenarioTree})
    \/ InitDirect(DirectWalkers, DirectArgs, PathTrees)

Spec == Init /\ [][Next]_vars

\* The runs whose walk is followed to its end: execute runs one step after
\* the other and stops only when it has returned.
LiveArgs == { a \in PathArgs : a.root = NoPath /\ a.exclude = <<>> }

LiveInit ==
    \/ InitWith(LiveArgs, PathTrees)
    \/ InitStages(StageArgs, StageTrees, StageEnvs)

LiveSpec == LiveInit /\ [][Next]_vars /\ WF_vars(Next)

\* ------------------------------------------------------- progress_counter

\* Option<String> of progress_counter: None is the empty message, a panic
\* (the remainder or the index by zero) is a message of its own.
None == <<>>
Panicked == <<"panicked">>

\* animations::progress_counter: a message at every multiple of interval,
\* its emoji at index (current / interval) % emoji_set.len(), counted from 0.
progress_counter(emoji_set, current, interval) ==
    IF interval = 0 THEN Panicked
    ELSE IF current % interval = 0
         THEN IF Len(emoji_set) = 0 THEN Panicked
              ELSE LET idx == (current \div interval) % Len(emoji_set)
                   IN <<emoji_set[idx + 1], "Collected", ToString(current), "files so far...">>
         ELSE None

\* The emoji sets progress_counter is called with: the one of its tests,
\* the one of Walker::traverse, one emoji, and none.
test_emojis == <<"seedling", "herb", "leaves">>
tree_emojis == <<"seedling", "herb", "leaves", "tree", "evergreen", "christmas_tree">>
EmojiSets == {test_emojis, tree_emojis, <<"seedling">>, <<>>}

\* A call of progress_counter with the arguments the state holds.
ProgressCounter ==
    /\ pc = "progress_counter"
    /\ LET msg == progress_counter(progress.emoji_set, progress.current, progress.interval)
       IN /\ progress' = [progress EXCEPT !.message = msg]
          /\ pc' = IF msg = Panicked THEN "progress_panicked" ELSE "progress_returned"
    /\ UNCHANGED <<args, walker, fs, matcher, started, stack, file_count,
                   first, records, seen, errs, result, fs0, listing, run, out1,
                   env, clipboard, opened>>

\* progress_counter about to be called, with no run of the command.
ProgressInit ==
    /\ pc = "progress_counter"
    /\ progress \in [emoji_set : EmojiSets, current : 0..MaxCurrent,
                     interval : 0..MaxInterval, message : {None}]
    /\ args = CHOOSE a \in ScenarioArgs : TRUE
    /\ fs = ScenarioTree
    /\ walker = NoWalker
    /\ env = [Desktop EXCEPT !.caller = "progress_counter"]
    /\ fs0 = fs
    /\ listing = [n \in Nodes |-> <<>>]
    /\ run = 1
    /\ out1 = <<>>
    /\ clipboard = NoClipboard
    /\ opened = FALSE
    /\ matcher = NoMatcher
    /\ started = FALSE
    /\ stack = <<>>
    /\ file_count = 0
    /\ first = TRUE
    /\ records = <<>>
    /\ seen = {}
    /\ errs = {}
    /\ result = "none"

ProgressNext == ProgressCounter

ProgressSpec == ProgressInit /\ [][ProgressNext]_vars

TypeOK ==
    /\ pc \in {"start", "process_dir", "traverse", "open", "walk", "done", "failed",
              "clipboard", "stats", "editor", "delete", "returned",
              "failed_clipboard_new", "failed_set_clipboard", "failed_stats",
              "failed_editor", "failed_delete",
              "progress_counter", "progress_returned", "progress_panicked"}
    /\ opened \in BOOLEAN
    /\ clipboard.set \in BOOLEAN
    /\ result \in {"none", "ok", "err_input", "err_pattern", "err_open", "err_read"}
    /\ run \in {1, 2}
    /\ file_count \in Nat
    /\ first \in BOOLEAN

\* ----------------------------------------------------------------- claims

\* The directories above an entry, as the entry's path spells them.
Ancestors(e) == { SubSeq(e, 1, k) : k \in 1..(Len(e) - 1) } \ {Dot, <<"/">>}

\* The place a path denotes lies strictly below the root of the run.
BelowRoot(p) ==
    /\ Len(Resolve(p)) > Len(Resolve(walker.root))
    /\ IsPrefix(Resolve(walker.root), Resolve(p))

\* The input subtree is the root of the run or lies below it.
InputAtOrBelowRoot == IsPrefix(Resolve(walker.root), Resolve(walker.input))

\* The closure of filter_entry lets the path through.
LetThrough(p) ==
    /\ ~is_excluded(fs, matcher, p)
    /\ ~args.skip_hidden \/ ~is_hidden(p)

RecordsOf(p) == { i \in 1..Len(records) : Resolve(records[i].entry) = Resolve(p) }

\* C1: whenever the input subtree is the root or below it, no record of the
\* output belongs to a file that has, between the root and itself, a
\* directory the rule set excludes.
C1_NoRecordBelowExcludedDirectory ==
    InputAtOrBelowRoot =>
        \A i \in 1..Len(records) : \A a \in Ancestors(records[i].entry) :
            ~(BelowRoot(a) /\ IsDir(fs, a) /\ is_excluded(fs, matcher, a))

\* C2: no record belongs to the file the destination denotes, however the
\* destination and the input were written.
C2_DestinationNeverARecord ==
    \A i \in 1..Len(records) : Resolve(records[i].entry) # Resolve(walker.output)

\* The paths the walk gives the places at or below the input.
WalkPaths ==
    { walker.input \o SubSeq(n, Len(Resolve(walker.input)) + 1, Len(n)) :
        n \in { m \in Nodes : IsPrefix(Resolve(walker.input), m) } }

\* Every directory can be listed and every file decodes as text.
AllReadable == \A n \in Nodes : fs[n].perm /\ fs[n].utf8

\* C3: after a successful run with hidden-skip off over a readable tree,
\* every regular file of the input subtree that is not the destination, is not excluded itself and has
\* no excluded directory above it has exactly one record.
C3_EveryQualifyingFileOnce ==
    (pc = "done" /\ ~args.skip_hidden /\ AllReadable) =>
        \A e \in WalkPaths :
            ( /\ IsFile(fs, e)
              /\ Resolve(e) # Resolve(walker.output)
              /\ ~is_excluded(fs, matcher, e)
              /\ \A a \in Ancestors(e) : ~(IsDir(fs, a) /\ is_excluded(fs, matcher, a)) )
            => Cardinality(RecordsOf(e)) = 1

\* A successful run with hidden-skip off that wrote two records or more while
\* a rule kept a file of the input subtree out.
C3_Witness ==
    /\ pc = "done"
    /\ ~args.skip_hidden
    /\ AllReadable
    /\ Len(records) >= 2
    /\ \E e \in WalkPaths : IsFile(fs, e) /\ RecordsOf(e) = {}
                            /\ Resolve(e) # Resolve(walker.output)

\* The walk met the directory and its filter turned it away.
Pruned(a) == a \in seen /\ IsDir(fs, a) /\ ~LetThrough(a)

\* C4: below a directory that the filter turned away (excluded, or hidden
\* with hidden-skip on) the walk hands no entry to the filter and produces
\* no access error.
C4_PrunedDirectoryNeverDescended ==
    \A e \in seen \cup errs : \A a \in Ancestors(e) : ~Pruned(a)

\* The walk is over, it turned away a directory that has entries, one of
\* them a directory that cannot be listed.
C4_Witness ==
    /\ pc = "done"
    /\ \E a \in seen : /\ Pruned(a)
                       /\ ChildNames(fs, a) # {}
                       /\ \E n \in ChildNames(fs, a) :
                            IsDir(fs, Join(a, n)) /\ ~fs[Resolve(Join(a, n))].perm

\* The pattern lines of the run in the order of the rule set: the lines of
\* the ignore file at the root, then the CLI patterns.
IgnoreLines ==
    LET ignore_file == Join(walker.root, ".treeclipignore") IN
    IF IsFile(fs, ignore_file) THEN Lines(fs[Resolve(ignore_file)].content, <<>>) ELSE <<>>

AllLines == IgnoreLines \o walker.exclude_patterns

\* The rules of AllLines that match a path; a directory-only rule matches
\* directories only.
Matching(p) ==
    { i \in 1..Len(AllLines) :
        /\ add_line(AllLines[i]).kind = "glob"
        /\ GlobMatches(add_line(AllLines[i]), Strip(matcher, p))
        /\ add_line(AllLines[i]).is_only_dir => IsDir(fs, p) }

Max(S) == CHOOSE x \in S : \A y \in S : y <= x

\* The paths the matcher is asked about.
Candidates == Nodes \cup WalkPaths

\* C5: with the rules ordered ignore file first, then CLI patterns as given,
\* a path is excluded, by the matcher ExcludeMatcher::new has just returned,
\* iff some rule matches it and the last rule that matches it is not a
\* negation.
C5_LastMatchingRuleDecides ==
    (pc = "open" /\ matcher.kind = "ok") =>
        \A p \in Candidates :
            is_excluded(fs, matcher, p)
                <=> ( /\ Matching(p) # {}
                      /\ ~add_line(AllLines[Max(Matching(p))]).is_whitelist )

\* A matcher was built and some path is matched by a rule of the ignore file
\* and by a CLI rule of the other polarity.
C5_Witness ==
    /\ pc = "open"
    /\ matcher.kind = "ok"
    /\ \E p \in Candidates : \E i, j \in Matching(p) :
          /\ i <= Len(IgnoreLines)
          /\ j > Len(IgnoreLines)
          /\ add_line(AllLines[i]).is_whitelist # add_line(AllLines[j]).is_whitelist

\* C6: when ExcludeMatcher::new has returned a matcher, no pattern line of the
\* ignore file at the root and no CLI pattern is malformed.
C6_MalformedLineIsAnError ==
    matcher.kind = "ok" =>
        \A i \in 1..Len(AllLines) : add_line(AllLines[i]).kind # "error"

\* C7: while no error has occurred the output is empty or starts with the
\* first record and ends with the last record's newline, every record starts
\* with its header, and between two consecutive records there is exactly one
\* blank line.
C7_OneBlankLineBetweenRecords ==
    pc \in {"walk", "done"} =>
        LET N == Len(records) IN
        /\ N = 0 => Out = <<>>
        /\ N >= 1 => records[1].from = 1 /\ records[N].to = Len(Out)
        /\ \A i \in 1..N :
              /\ records[i].from < records[i].to
              /\ Out[records[i].from] = "==> "
              /\ Out[records[i].to] = "\n"
        /\ \A i \in 1..(N - 1) :
              /\ Out[records[i].to + 1] = "\n"
              /\ records[i + 1].from = records[i].to + 2

\* A finished run of two records or more, one of them of a file whose text
\* is empty or all whitespace.
C7_Witness ==
    /\ pc = "done"
    /\ Len(records) >= 2
    /\ \E i \in 1..Len(records) : records[i].content = <<>>
    /\ \E i \in 1..Len(records) :
          /\ records[i].content # <<>>
          /\ \A k \in 1..Len(records[i].content) : records[i].content[k] \in WhiteSpace

\* The part of the output a record takes.
RecordText(i) == SubSeq(Out, records[i].from, records[i].to)

\* C8: a record is its header line, then the text of the file up to its last
\* token that is not whitespace, then one newline (as long as the output
\* file is there: the delete stage removes it with its records).
C8_RecordIsHeaderTrimmedTextNewline ==
    IsFile(fs, walker.output) =>
    \A i \in 1..Len(records) :
        LET h == HeaderLine(records[i].header)
            t == SubSeq(RecordText(i), Len(h) + 1, Len(RecordText(i)) - 1)
            c == records[i].content
        IN /\ IsPrefix(h, RecordText(i))
           /\ Len(RecordText(i)) > Len(h)
           /\ Last(RecordText(i)) = "\n"
           /\ IsPrefix(t, c)
           /\ t = <<>> \/ Last(t) \notin WhiteSpace
           /\ \A k \in (Len(t) + 1)..Len(c) : c[k] \in WhiteSpace

\* A record of a file whose text starts with whitespace, holds a token that
\* is not whitespace and ends with a space.
C8_Witness ==
    \E i \in 1..Len(records) :
        LET c == records[i].content IN
        /\ Len(c) >= 3
        /\ c[1] \in WhiteSpace
        /\ Last(c) = " "
        /\ \E k \in 1..Len(c) : c[k] \notin WhiteSpace

\* A relative path without its leading ./ component.
NoCurDir(p) == IF Len(p) > 1 /\ p[1] = "." THEN Tail(p) ELSE p

\* C9: the header of a file below the root is the file's path relative to
\* the root (a leading ./ apart), however root and input were written.
C9_HeaderRelativeToRoot ==
    \A i \in 1..Len(records) :
        BelowRoot(records[i].entry) =>
            NoCurDir(records[i].header) = SubSeq(Resolve(records[i].entry),
                                       Len(Resolve(walker.root)) + 1,
                                       Len(Resolve(records[i].entry)))

\* The file does not lie at or below the root.
OutsideRoot(p) == ~IsPrefix(Resolve(walker.root), Resolve(p))

\* C10: a record of a file outside the root carries the path the walk gave
\* the file, and after a successful run over a readable tree every file
\* outside the root that the walk let through, the destination apart, has
\* such a record.
C10_OutsideRootKeepsWalkPath ==
    /\ \A i \in 1..Len(records) :
          OutsideRoot(records[i].entry) => records[i].header = records[i].entry
    /\ (pc = "done" /\ AllReadable) =>
          \A e \in seen :
              (LetThrough(e) /\ IsFile(fs, e) /\ e # walker.output /\ OutsideRoot(e))
              => \E i \in 1..Len(records) :
                    /\ records[i].entry = e
                    /\ IsPrefix(HeaderLine(e), RecordText(i))

\* A finished run with a record of a file outside the root.
C10_Witness ==
    /\ pc = "done"
    /\ \E i \in 1..Len(records) : OutsideRoot(records[i].entry)

\* The name of the entry begins with a dot.
DotName(p) == Last(p) \in DotNames

\* The directories of the walk above an entry: the input and what lies
\* between the input and the entry.
WalkAncestors(e) ==
    { a \in Ancestors(e) : Len(a) >= Len(walker.input) /\ IsPrefix(walker.input, a) }

\* C11: with hidden-skip on, no record belongs to an entry whose name begins
\* with a dot or that has, in the walk, a directory above it whose name
\* begins with a dot; and after a successful run over a readable tree every
\* other regular file of the input subtree that the rules let through and
\* that is not the destination has exactly one record, as with the flag off.
C11_HiddenSkipped ==
    args.skip_hidden =>
        /\ \A i \in 1..Len(records) :
              /\ ~DotName(records[i].entry)
              /\ \A a \in WalkAncestors(records[i].entry) : ~DotName(a)
        /\ (pc = "done" /\ AllReadable) =>
              \A e \in WalkPaths :
                  ( /\ IsFile(fs, e)
                    /\ Resolve(e) # Resolve(walker.output)
                    /\ ~DotName(e)
                    /\ \A a \in WalkAncestors(e) : ~DotName(a)
                    /\ ~is_excluded(fs, matcher, e)
                    /\ \A a \in Ancestors(e) : ~(IsDir(fs, a) /\ is_excluded(fs, matcher, a)) )
                  => Cardinality(RecordsOf(e)) = 1

\* A successful run with hidden-skip on that met a hidden file and a hidden
\* directory that holds a file, and wrote records of other files.
C11_Witness ==
    /\ pc = "done"
    /\ args.skip_hidden
    /\ AllReadable
    /\ Len(records) >= 2
    /\ \E e \in seen : DotName(e) /\ IsFile(fs, e)
    /\ \E e \in seen : DotName(e) /\ IsDir(fs, e) /\ ChildNames(fs, e) # {}

\* The entries the loop body of traverse took for files to write.
Written == { e \in seen : LetThrough(e) /\ e # walker.output /\ KindOf(fs, e) = "file" }

\* C12: every record belongs to a regular file, and the run has begun a
\* record (header and content) for the regular files the walk let through
\* and for nothing else: the directories the walk goes through get none.
C12_OnlyRegularFilesRecorded ==
    /\ \A i \in 1..Len(records) : KindOf(fs, records[i].entry) = "file"
    /\ file_count = Cardinality(Written)
    /\ Len(records) <= file_count

\* A finished run that went through a directory, met a link whose target is
\* missing, and wrote the record of a file below the directory.
C12_Witness ==
    /\ pc = "done"
    /\ \E d \in seen :
          /\ IsDir(fs, d)
          /\ LetThrough(d)
          /\ \E i \in 1..Len(records) : d \in Ancestors(records[i].entry)
    /\ \E e \in seen : KindOf(fs, e) = "broken" /\ LetThrough(e)

\* Every regular file decodes as text.
FilesDecodable == \A n \in Nodes : fs[n].kind = "file" => fs[n].utf8

\* Every directory of the walk above the entry can be listed.
Accessible(e) == \A a \in WalkAncestors(e) : fs[Resolve(a)].perm

\* C13: an entry the walk cannot get at (a directory that cannot be listed,
\* an input that is gone, a link whose target is missing) is no error of the
\* run: a run that met one fails only on the content of a file, and when it
\* succeeds over files that all decode, every qualifying file that can be
\* reached has exactly one record.
C13_AccessErrorsSkipped ==
    /\ (started /\ errs # {}) => result \in {"none", "ok", "err_read"}
    /\ result = "err_read" => ~FilesDecodable
    /\ (pc = "done" /\ FilesDecodable) =>
          \A e \in WalkPaths :
              ( /\ IsFile(fs, e)
                /\ Resolve(e) # Resolve(walker.output)
                /\ Accessible(e)
                /\ ~args.skip_hidden \/ (~DotName(e) /\ \A a \in WalkAncestors(e) : ~DotName(a))
                /\ ~is_excluded(fs, matcher, e)
                /\ \A a \in Ancestors(e) : ~(IsDir(fs, a) /\ is_excluded(fs, matcher, a)) )
              => Cardinality(RecordsOf(e)) = 1

\* A successful run that met a directory it could not list and a link whose
\* target is missing, and wrote the records of two files or more.
C13_Witness ==
    /\ pc = "done"
    /\ result = "ok"
    /\ \E d \in errs : IsDir(fs, d)
    /\ \E e \in seen : KindOf(fs, e) = "broken"
    /\ Len(records) >= 2

\* The files handed to write_file_content whose text does not decode.
Undecodable == { e \in Written : ~fs[Resolve(e)].utf8 }

\* The run has met a file it cannot read exactly when it has returned the
\* read error; it then has stopped, at the first such file, without a
\* record of it.
ReadErrorStops ==
    /\ Undecodable # {} <=> result = "err_read"
    /\ result = "err_read" =>
          /\ pc = "failed"
          /\ Cardinality(Undecodable) = 1
          /\ \A e \in Undecodable : RecordsOf(e) = {}
          /\ file_count = Len(records) + 1

\* C14: a qualifying file whose content cannot be read or decoded makes
\* traverse return the read error at that file, never a success, and once
\* the error is returned nothing more happens: no entry is taken from the
\* walk and no record is written.
C14_ReadErrorIsFatal == []ReadErrorStops /\ [][result # "err_read"]_vars

\* The run failed on a file after it wrote a record, with files of the
\* input subtree still ahead in the walk.
C14_Witness ==
    /\ result = "err_read"
    /\ Len(records) >= 1
    /\ stack # <<>>
    /\ \E e \in WalkPaths \ seen : IsFile(fs, e)

\* The destination is a place of the filesystem.
DestinationIsNode == walker # NoWalker /\ Resolve(walker.output) \in DOMAIN fs

\* C15: after a fatal error of a run the destination is absent, if it was
\* absent before the run, or holds what it held before the run.
C15_FatalErrorRevertsDestination ==
    (pc = "failed" /\ DestinationIsNode) =>
        fs[Resolve(walker.output)] = fs0[Resolve(walker.output)]

\* C16: when the path the walk is to start from does not exist, process_dir
\* does not succeed and the destination is neither created nor truncated.
C16_MissingInputIsAnError ==
    (walker # NoWalker /\ run = 1 /\ ~Exists(fs0, walker.input)) =>
        /\ result # "ok"
        /\ fs = fs0

\* C17: when a run has failed with a setup error (input path, pattern,
\* destination), the walk has not begun, no record is written and the
\* filesystem, the destination included, is as it was before the run.
C17_SetupErrorsLeaveNoOutput ==
    result \in {"err_input", "err_pattern", "err_open"} =>
        /\ pc = "failed"
        /\ ~started
        /\ records = <<>>
        /\ fs = fs0

\* A run that failed on a malformed pattern while the destination held
\* text from before.
C17_Witness ==
    /\ result = "err_pattern"
    /\ DestinationIsNode
    /\ KindOf(fs0, walker.output) = "file"
    /\ fs0[Resolve(walker.output)].content # <<>>

\* The text of the first n records as traverse writes them: header line,
\* trimmed content, newline, and a blank line between two records.
RECURSIVE Aggregate(_)
Aggregate(n) ==
    IF n = 0 THEN <<>>
    ELSE Aggregate(n - 1)
         \o (IF n > 1 THEN <<"\n">> ELSE <<>>)
         \o HeaderLine(records[n].header) \o trim_end(records[n].content) \o <<"\n">>

\* C18: when the walk is about to give its first entry the destination is
\* an empty file, and after a successful run the destination holds the
\* records of this run and nothing else, whatever it held before.
C18_DestinationTruncatedBeforeWalk ==
    /\ (pc = "walk" /\ ~started) => (KindOf(fs, walker.output) = "file" /\ Out = <<>>)
    /\ pc = "done" => Out = Aggregate(Len(records))

\* A successful run that wrote a record into a destination that held text
\* before the run.
C18_Witness ==
    /\ pc = "done"
    /\ Len(records) >= 1
    /\ KindOf(fs0, walker.output) = "file"
    /\ fs0[Resolve(walker.output)].content # <<>>

\* The destination does not lie in the input subtree.
DestinationOutsideTree == ~IsPrefix(Resolve(walker.input), Resolve(walker.output))

\* C19: when the second run over the tree returns, with the destination
\* outside the input subtree, the destination holds exactly what it held
\* when the first run returned.
C19_SecondRunSameOutput ==
    (run = 2 /\ pc = "done" /\ DestinationOutsideTree) => Out = out1

\* A second run returned, with the destination outside the input subtree
\* and two records or more from directories of two entries or more.
C19_Witness ==
    /\ run = 2
    /\ pc = "done"
    /\ DestinationOutsideTree
    /\ Len(records) >= 2
    /\ \E n \in Nodes : Len(listing[n]) >= 2

\* The run of the scenario: root and input are the directory that holds
\* a.txt, sub/b.txt and the ignore file, the destination lies elsewhere.
IsScenario ==
    /\ args \in ScenarioArgs
    /\ \A n \in Nodes \ {Abs_out} : fs[n] = ScenarioTree[n]

ScenarioOutput == <<"==> ", "a.txt", "\n", "hello", "\n">>

\* C20 as stated: after the run of the scenario the output is the one
\* record of a.txt.
C20_ScenarioOutput ==
    (IsScenario /\ pc = "done") => Out = ScenarioOutput

\* C20: after the run of the scenario with hidden-skip on the output is the
\* one record of a.txt.
C20_ScenarioOutputHiddenSkipped ==
    (IsScenario /\ args.skip_hidden /\ pc = "done") => Out = ScenarioOutput

\* The run of the scenario with hidden-skip on has returned, having met the
\* ignore file and the directory sub.
C20_Witness ==
    /\ IsScenario
    /\ args.skip_hidden
    /\ pc = "done"
    /\ Join(walker.input, ".treeclipignore") \in seen
    /\ Join(walker.input, "sub") \in seen

\* The rules of AllLines whose pattern matches the path, whatever the path
\* is.
NameMatching(p) ==
    { i \in 1..Len(AllLines) :
        /\ add_line(AllLines[i]).kind = "glob"
        /\ GlobMatches(add_line(AllLines[i]), Strip(matcher, p)) }

\* The rules among them that are not directory-only.
PlainMatching(p) == { i \in NameMatching(p) : ~add_line(AllLines[i]).is_only_dir }

\* C21: when ExcludeMatcher::new has returned and when the run is over, a
\* directory-only pattern has no say on a path that is not a directory:
\* such a path is excluded iff the last pattern that matches it
\* and is not directory-only excludes it; and a directory whose last
\* matching pattern is a directory-only pattern that is no negation is
\* excluded.
C21_DirectoryOnlyPatterns ==
    (pc \in {"open", "done"} /\ matcher.kind = "ok") =>
        \A p \in Candidates :
            /\ ~IsDir(fs, p) =>
                  ( is_excluded(fs, matcher, p)
                      <=> ( /\ PlainMatching(p) # {}
                            /\ ~add_line(AllLines[Max(PlainMatching(p))]).is_whitelist ) )
            /\ ( /\ IsDir(fs, p)
                 /\ NameMatching(p) # {}
                 /\ add_line(AllLines[Max(NameMatching(p))]).is_only_dir
                 /\ ~add_line(AllLines[Max(NameMatching(p))]).is_whitelist )
               => is_excluded(fs, matcher, p)

\* A finished run with a directory-only pattern that matches the name of a
\* regular file, which has its record, and of a directory, which the walk
\* turned away.
C21_Witness ==
    /\ pc = "done"
    /\ \E i \in 1..Len(AllLines) : \E p, q \in seen :
          /\ add_line(AllLines[i]).kind = "glob"
          /\ add_line(AllLines[i]).is_only_dir
          /\ i \in NameMatching(p) /\ i \in NameMatching(q)
          /\ IsFile(fs, p) /\ RecordsOf(p) # {}
          /\ IsDir(fs, q) /\ is_excluded(fs, matcher, q)

\* There is no ignore file at the root of the run.
NoIgnoreFile == ~LExists(fs, Join(walker.root, ".treeclipignore"))

\* C22: with no ignore file at the root, building the matcher fails only on
\* a malformed CLI pattern and the matcher holds the CLI rules and no
\* other; with no CLI pattern either it holds no rule and reports no path,
\* the root included, as excluded.
C22_MissingIgnoreFileNoRules ==
    (walker # NoWalker /\ NoIgnoreFile) =>
        /\ result = "err_pattern" =>
              \E i \in 1..Len(walker.exclude_patterns) :
                  add_line(walker.exclude_patterns[i]).kind = "error"
        /\ pc = "open" =>
              /\ matcher.kind = "ok"
              /\ matcher.globs = Globs(walker.exclude_patterns)
              /\ walker.exclude_patterns = <<>> =>
                    /\ matcher.globs = <<>>
                    /\ \A p \in Candidates \cup {walker.root} :
                          ~is_excluded(fs, matcher, p)

\* ExcludeMatcher::new has returned a matcher for a root without ignore
\* file and an empty CLI pattern list.
C22_Witness ==
    /\ pc = "open"
    /\ NoIgnoreFile
    /\ walker.exclude_patterns = <<>>
    /\ matcher.kind = "ok"

\* C23: whatever the run has done and however it ended, every place of the
\* filesystem but the destination is as it was before the run.
C23_OnlyDestinationChanges ==
    walker # NoWalker =>
        \A n \in Nodes \ {Resolve(walker.output)} : fs[n] = fs0[n]

\* A finished run that wrote records of input files into the destination.
C23_Witness ==
    /\ pc = "done"
    /\ Len(records) >= 2
    /\ fs # fs0

\* The files the walk has handed on are as many as the regular files among
\* the entries it has met: none came twice.
EachFileOnce ==
    /\ file_count <= Cardinality({ e \in seen : IsFile(fs, e) })
    /\ \A i, j \in 1..Len(records) :
          i # j => Resolve(records[i].entry) # Resolve(records[j].entry)

\* C24: a walk that has begun comes to its end, with success or with the
\* read error, and at no time has a file come from it twice; the
\* destination may lie in the walked subtree.
C24_WalkTerminates ==
    /\ (pc = "walk") ~> (pc \in {"done", "failed"})
    /\ []EachFileOnce

\* A walk that ended while the destination lay in the walked subtree, was
\* met by the walk and got a record.
C24_Witness ==
    /\ pc = "done"
    /\ IsPrefix(Resolve(walker.input), Resolve(walker.output))
    /\ \E e \in seen : Resolve(e) = Resolve(walker.output) /\ RecordsOf(e) # {}
    /\ Len(records) >= 2

\* The filter turns the input itself away.
Depth0Rejected ==
    \/ is_excluded(fs, matcher, walker.input)
    \/ args.skip_hidden /\ DotName(walker.input)

\* C25: when the walk has begun and the filter has turned away its first
\* entry, the input itself, the run has not failed, no other entry has come
\* from the walk, and there is no record and no text in the output.
C25_FilterAppliesToInput ==
    (started /\ LExists(fs, walker.input) /\ Depth0Rejected) =>
        /\ pc # "failed"
        /\ seen = {walker.input}
        /\ stack = <<>>
        /\ records = <<>>
        /\ Out = <<>>

\* A successful run whose input is a directory that holds entries and is
\* excluded by a rule.
C25_Witness ==
    /\ pc = "done"
    /\ result = "ok"
    /\ IsDir(fs, walker.input)
    /\ ChildNames(fs, walker.input) # {}
    /\ is_excluded(fs, matcher, walker.input)

\* A successful run whose input is a hidden directory that holds a file,
\* with hidden-skip on.
C25_WitnessHidden ==
    /\ pc = "done"
    /\ result = "ok"
    /\ args.skip_hidden
    /\ IsDir(fs, walker.input)
    /\ DotName(walker.input)
    /\ ChildNames(fs, walker.input) # {}

\* The ignore file of the run.
IgnoreFile == Join(walker.root, ".treeclipignore")

\* C26: after a successful run with hidden-skip off over files that all
\* decode, the ignore file, when it is a regular file of the input subtree
\* that can be reached, is not the destination and is excluded by no rule,
\* has exactly one record, and the record carries its text.
C26_IgnoreFileIsAnInputFile ==
    (pc = "done" /\ ~args.skip_hidden /\ FilesDecodable) =>
        \A e \in WalkPaths :
            ( /\ Resolve(e) = Resolve(IgnoreFile)
              /\ IsFile(fs, e)
              /\ Accessible(e)
              /\ Resolve(e) # Resolve(walker.output)
              /\ ~is_excluded(fs, matcher, e)
              /\ \A a \in Ancestors(e) : ~(IsDir(fs, a) /\ is_excluded(fs, matcher, a)) )
            => /\ Cardinality(RecordsOf(e)) = 1
               /\ \A i \in RecordsOf(e) : records[i].content = fs[Resolve(e)].content

\* A successful run with hidden-skip off that took rules from the ignore
\* file and wrote the ignore file's record.
C26_Witness ==
    /\ pc = "done"
    /\ ~args.skip_hidden
    /\ matcher.globs # <<>>
    /\ \E i \in 1..Len(records) :
          /\ Resolve(records[i].entry) = Resolve(IgnoreFile)
          /\ records[i].content # <<>>

\* ------------------------------------------------------------------ C27

\* The positions of execute after process_dir has returned.
StagePc == {"clipboard", "stats", "editor", "delete", "returned",
            "failed_clipboard_new", "failed_set_clipboard", "failed_stats",
            "failed_editor", "failed_delete"}

\* process_dir has returned an error.
ProcessDirFailed == result \notin {"none", "ok"}

\* C27: no stage of execute after process_dir (clipboard, statistics,
\* editor, delete) starts unless process_dir returned success. When
\* process_dir fails, execute has returned that error: the clipboard was
\* not set, no editor was opened, and nothing is written or removed any
\* more.
C27_StagesOnlyAfterSuccess ==
    /\ [](pc \in StagePc => result = "ok")
    /\ [](ProcessDirFailed => pc = "failed" /\ clipboard = NoClipboard /\ ~opened)
    /\ [][ProcessDirFailed => (fs' = fs /\ clipboard' = clipboard /\ opened' = opened)]_vars

\* A run with every stage asked for whose walk failed on a file it could
\* not read, after the destination was created.
C27_Witness ==
    /\ env.caller = "execute"
    /\ args.clipboard /\ args.stats /\ args.editor /\ args.delete
    /\ env.clipboard_ok /\ env.editor_ok
    /\ result = "err_read"
    /\ pc = "failed"
    /\ IsFile(fs, walker.output)

\* ------------------------------------------------------------------ C28

\* The destination is there, as process_dir left it.
OutputInPlace == IsFile(fs, walker.output)

\* C28: the output file is removed only by the delete stage, with both
\* the editor and the delete flag set and after the editor stage returned
\* successfully. With the delete flag set and the editor flag unset, or
\* when the editor cannot be opened, the output file is left in place.
C28_DeleteOnlyAfterEditor ==
    /\ [][(LExists(fs, walker.output) /\ ~LExists(fs', walker.output))
            => (pc = "delete" /\ args.delete /\ args.editor /\ opened)]_vars
    /\ []((pc = "returned" /\ ~(args.delete /\ args.editor)) => OutputInPlace)
    /\ [](pc = "failed_editor" => OutputInPlace)

\* The output file was removed after the editor had been opened.
C28_Witness ==
    /\ pc = "returned"
    /\ args.delete /\ args.editor
    /\ opened
    /\ ~LExists(fs, walker.output)
    /\ result = "ok"

\* The delete flag alone: the run returned and the file is there.
C28_WitnessDeleteOnly ==
    /\ pc = "returned"
    /\ args.delete /\ ~args.editor
    /\ OutputInPlace

\* The editor could not be opened: the file is there.
C28_WitnessEditorFails ==
    /\ pc = "failed_editor"
    /\ args.delete /\ args.editor
    /\ ~env.editor_ok
    /\ OutputInPlace

\* ------------------------------------------------------------------ C29

\* C29: with the clipboard flag off, a run whose traversal succeeded does
\* not fail on the system clipboard: it never returns the error of
\* Clipboard::new, whether or not a clipboard can be initialised.
C29_NoClipboardDependency ==
    (result = "ok" /\ ~args.clipboard) => pc # "failed_clipboard_new"

\* ------------------------------------------------------------------ C30

\* progress_counter has returned from a call with a positive interval and
\* at least one emoji.
ProgressReturned ==
    /\ pc = "progress_returned"
    /\ progress.interval >= 1
    /\ Len(progress.emoji_set) >= 1

\* C30: progress_counter returns a message iff current is a multiple of
\* interval, and the k-th interval (current = k * interval, k >= 1) uses
\* the emoji at index (k - 1) mod len, counted from 0: the first interval
\* shows the first emoji of the set.
C30_ProgressCounterRotation ==
    ProgressReturned =>
        /\ (progress.message # None) <=> (progress.current % progress.interval = 0)
        /\ (progress.current % progress.interval = 0 /\ progress.current >= progress.interval)
              => LET k == progress.current \div progress.interval
                 IN progress.message[1]
                       = progress.emoji_set[((k - 1) % Len(progress.emoji_set)) + 1]

\* What the code does: a message iff current is a multiple of interval,
\* and the k-th interval uses the emoji at index k mod len, so the first
\* interval shows the second emoji and a count of 0 the first.
C30_RotationFromSecond ==
    ProgressReturned =>
        /\ (progress.message # None) <=> (progress.current % progress.interval = 0)
        /\ (progress.current % progress.interval = 0)
              => LET k == progress.current \div progress.interval
                 IN progress.message[1]
                       = progress.emoji_set[(k % Len(progress.emoji_set)) + 1]

\* The calls of test_progress_counter_emoji_rotation: counts 5, 10 and 15
\* with interval 5 over three emojis give the 2nd, the 3rd and the 1st.
C30_TestCalls ==
    /\ ProgressReturned
    /\ progress.emoji_set = test_emojis
    /\ progress.interval = 5
    /\ progress.current = 5
    /\ progress.message[1] = "herb"

====
